---- MODULE Spec2Model ----
(***************************************************************************)
(* Verification model of the API gateway (src/api_gateway).                *)
(*                                                                         *)
(* Subsystems, each with its own specification over the shared variables:  *)
(*   SpecAuth     AuthMiddleware.dispatch, AuthService.authenticate_user   *)
(*   SpecRate     RateLimitMiddleware.dispatch                             *)
(*   SpecAppt     AppointmentService create / update / cancel              *)
(*   SpecSync     S3SyncService sync / versions / delete                   *)
(*   SpecSession  DatabaseService.session_scope                            *)
(*   SpecRefresh  AuthService.refresh_token                                *)
(*   SpecApptLive appointment events sent over the WebSocket channel       *)
(*   SpecCust     CustomerService.create_customer                          *)
(*   SpecInitData initialize_default_data                                  *)
(*   SpecSettings SettingsService system prompt                            *)
(*   SpecStack    RateLimitMiddleware in front of AuthMiddleware           *)
(*   SpecScan     S3SyncService.scan_and_sync_submission                   *)
(*                                                                         *)
(* Strings that the code inspects by prefix (URL paths) are sequences of   *)
(* tokens, so that str.startswith is a real prefix test.  Time is UTC      *)
(* epoch seconds.  The services open their transaction with                *)
(* <repo>.session_scope(); the only session_scope of the repository is     *)
(* DatabaseService.session_scope, which is what the model uses there.      *)
(***************************************************************************)
EXTENDS Integers, Sequences, FiniteSets, TLC

VARIABLES
    now,            \* wall clock, UTC epoch seconds (time.time(), datetime.utcnow())
    ticks,          \* number of clock advances so far (bounds the run)
    tz,             \* UTC offset of the server's local time zone, seconds
    users,          \* table users: username -> row
    issued,         \* tokens created by AuthService._create_access_token
    loginLast,      \* the authenticate_user call just made and what it returned
    authLast,       \* the request AuthMiddleware just saw and its outcome
    refreshLast,    \* the refresh_token call just made and what it returned
    request_counts, \* RateLimitMiddleware.request_counts: ip -> list of times
    forwarded,      \* history: ip -> times of the non-/health requests forwarded
    rateLast,       \* the last request seen by RateLimitMiddleware and its outcome
    nreq,           \* number of requests made to the rate limiter (bounds the run)
    appointments,   \* table appointments: list of rows, the index is the id
    slots,          \* table available_slots: (date, time) -> row state
    customer,       \* the customers row of the booking customer
    apptLast,       \* the appointment call just made and its outcome
    tasks,          \* event loop: the emit coroutines scheduled by create_task
    log,            \* history: the events owed by the calls that succeeded
    emitted,        \* history: the events sent to the WebSocket clients
    s3_file_links,  \* user_submissions.s3_file_links of the submission (JSONB)
    document_names, \* user_submissions.document_names of the submission
    synced,         \* history: (category, filename) -> entries built by the
                    \* successful sync_file_changes calls since the last delete
    syncLast,       \* the S3SyncService call just made and its outcome
    nsync,          \* number of sync_file_changes calls (bounds the run)
    pc,             \* where the current session_scope block is
    session,        \* the Session of the block: unflushed work, calls made on it
    durable,        \* what the database holds committed
    scope,          \* the block's record: what it wrote, how it ended
    nscopes,        \* number of session_scope blocks entered (bounds the run)
    customers,      \* table customers: list of committed rows
    cpc,            \* per server process: where its create_customer call is
    custIds,        \* history: phone -> ids returned as created or exists
    custLast,       \* the create_customer call just finished and its outcome
    ncust,          \* number of create_customer calls started (bounds the run)
    ipc,            \* per server process: where its initialize_default_data is
    initLast,       \* the initialize_default_data run just finished
    ninit,          \* number of initialize_default_data runs started
    s3txt,          \* S3 object system_prompt.txt: its text, or NoObject
    s3json,         \* S3 object system_settings/config.json: its system_prompt
    lastTrue,       \* history: the prompt of the last update that returned True
    setLast,        \* the SettingsService call just made and its outcome
    nupd,           \* number of update_system_prompt calls (bounds the run)
    gwLast,         \* the request that last went down the middleware stack
    refusals,       \* history: per IP, how many requests the limiter refused
    scanLast        \* the scan_and_sync_submission call just made

authVars == <<tz, users, issued, loginLast, authLast, refreshLast>>
rateVars == <<request_counts, forwarded, rateLast, nreq, refusals>>
apptVars == <<appointments, slots, customer, apptLast, tasks, log, emitted>>
syncVars == <<s3_file_links, document_names, synced, syncLast, nsync>>
sessVars == <<pc, session, durable, scope, nscopes>>
custVars == <<customers, cpc, custIds, custLast, ncust>>
initVars == <<ipc, initLast, ninit>>
setVars == <<s3txt, s3json, lastTrue, setLast, nupd>>
gwVars == <<gwLast>>
scanVars == <<scanLast>>
extVars == <<initVars, setVars, gwVars, scanVars>>
vars == <<now, ticks, authVars, rateVars, apptVars, syncVars, sessVars, custVars,
          extVars>>

-----------------------------------------------------------------------------
(* Bounds of the model *)

MaxTicks == 2
MaxIssued == 2
MaxRequests == 5
MaxAppointments == 3
MaxEvents == 3
MaxSyncs == 2
MaxScopes == 2
MaxWrites == 2
MaxCustomerCalls == 4
MaxInitRuns == 3
MaxUpdates == 3

-----------------------------------------------------------------------------
(* Configuration: config.py *)

JWT_TOKEN_EXPIRE_MINUTES == 30

API_KEY == "default-api-key"

\* settings.RATE_LIMIT_PER_MINUTE = int(os.getenv("RATE_LIMIT", "100")): any
\* deployment value; the model runs a small one.
limit_per_minute == 2

\* the window of RateLimitMiddleware: current_time - t < 60
WindowSeconds == 60

SecondsPerMinute == 60

-----------------------------------------------------------------------------
(* Helpers *)

\* str.startswith on token sequences
StartsWith(s, p) == Len(p) <= Len(s) /\ SubSeq(s, 1, Len(p)) = p

Range(s) == {s[i] : i \in 1..Len(s)}

-----------------------------------------------------------------------------
(* URL paths *)

PathRoot == <<"/">>
PathHealth == <<"/", "health">>
PathLogin == <<"/", "api", "/", "auth", "/", "login">>
PathRefresh == <<"/", "api", "/", "auth", "/", "refresh">>
PathDocs == <<"/", "docs">>
PathRedoc == <<"/", "redoc">>
PathOpenapi == <<"/", "openapi.json">>
PathTestConfig == <<"/", "test", "/", "config">>
PathCustomers == <<"/", "api", "/", "customers">>
PathAppointments == <<"/", "api", "/", "appointments">>

\* main.py: app.add_middleware(AuthMiddleware, public_paths=[...])
public_paths ==
    <<PathHealth, PathRoot, PathLogin, PathRefresh,
      PathDocs, PathRedoc, PathOpenapi, PathTestConfig>>

\* the paths clients request in the model
RequestPaths == {PathLogin, PathCustomers}

-----------------------------------------------------------------------------
(* Passwords and users *)

Passwords == {"admin123", "secret"}
Usernames == {"admin", "operator"}
LoginNames == Usernames \cup {"ghost"}

\* AuthService._hash_password: hashlib.sha256(password.encode()).hexdigest()
hash_password(password) == <<"sha256", password>>

\* init_data.py stores the default admin's password as a SHA-1 digest
Sha1(password) == <<"sha1", password>>

NeverLoggedIn == -1

UserRow(id, name, role, pw) ==
    [id |-> id, username |-> name, email |-> <<name, "@example.com">>,
     role |-> role, password |-> pw, last_login |-> NeverLoggedIn]

\* username -> row; "ghost" has no row (get_by_username returns None)
UsersTable ==
    [u \in Usernames |->
        IF u = "admin" THEN UserRow(1, "admin", "admin", Sha1("admin123"))
        ELSE UserRow(2, "operator", "user", hash_password("secret"))]

-----------------------------------------------------------------------------
(* JWT *)

\* A token: who signed it, the payload, and whether the payload has "exp".
Token(sig, user, hasExp, exp) ==
    [sig |-> sig, sub |-> user.id, username |-> user.username,
     email |-> user.email, role |-> user.role, has_exp |-> hasExp, exp |-> exp]

\* AuthService._create_access_token: expire = utcnow() + expires_delta;
\* jwt.encode turns the datetime into UTC epoch seconds.
create_access_token(user, t, expires_minutes) ==
    Token("valid", user, TRUE, t + expires_minutes * SecondsPerMinute)

\* jwt.decode(token, secret_key, algorithms=[algorithm]) (PyJWT 2): the
\* signature must verify, and a present exp must be later than now.
\* TRUE when it returns the payload, FALSE when it raises PyJWTError.
JwtDecodes(token, t) ==
    /\ token.sig = "valid"
    /\ token.has_exp => token.exp > t

\* datetime.utcnow().timestamp(): the naive UTC reading taken as local time
UtcnowTimestamp(t) == t - tz

-----------------------------------------------------------------------------
(* AuthMiddleware: middleware/auth.py *)

NoHeader == "<absent>"

ApiKeys == {NoHeader, API_KEY, "wrong-key"}

\* Authorization header: absent, without "Bearer ", or "Bearer <token>"
AuthSchemes == {"absent", "basic", "bearer"}

Request(method, path, key, scheme, token) ==
    [method |-> method, path |-> path, api_key |-> key,
     scheme |-> scheme, token |-> token]

\* what dispatch returns: the handler's response (call_next) or its own
CallNext == [status |-> 200, handled |-> TRUE]
HTMLResponse(code) == [status |-> code, handled |-> FALSE]

\* any(request_path.startswith(path) for path in self.public_paths)
IsPublicPath(path) ==
    \E i \in 1..Len(public_paths) : StartsWith(path, public_paths[i])

\* the try block of dispatch: format check, jwt.decode, exp check
CheckJwt(r, t) ==
    IF r.scheme # "bearer" THEN HTMLResponse(401)
    ELSE IF ~JwtDecodes(r.token, t) THEN HTMLResponse(401)
    \* payload.get("exp") is None: None < float raises TypeError -> 401
    ELSE IF ~r.token.has_exp THEN HTMLResponse(401)
    ELSE IF r.token.exp < UtcnowTimestamp(t) THEN HTMLResponse(401)
    ELSE CallNext

AuthMiddleware_dispatch(r, t) ==
    IF r.method = "OPTIONS" THEN CallNext
    ELSE IF IsPublicPath(r.path) THEN CallNext
    ELSE IF r.api_key = NoHeader \/ r.api_key = "" \/ r.api_key # API_KEY
         THEN HTMLResponse(403)
    ELSE IF r.scheme = "absent" THEN HTMLResponse(401)
    ELSE CheckJwt(r, t)

-----------------------------------------------------------------------------
(* AuthService.authenticate_user: services/auth_service.py *)

\* the placeholder where no token exists
NoToken == Token("none", UserRow(0, "", "", <<>>), FALSE, 0)

\* "return None": no token, nothing written
ReturnNone(table) ==
    [ok |-> FALSE, token |-> NoToken, expires_in |-> 0, table |-> table]

\* authenticate_user without the password comparison
authenticate_user_any_password(table, username, password, t) ==
    IF username \notin DOMAIN table THEN ReturnNone(table)
    ELSE [ok |-> TRUE,
          token |-> create_access_token(table[username], t, JWT_TOKEN_EXPIRE_MINUTES),
          expires_in |-> JWT_TOKEN_EXPIRE_MINUTES * SecondsPerMinute,
          table |-> [table EXCEPT ![username].last_login = t]]

\* The value returned and the rows written (committed by session_scope on
\* return).  token is meaningful only when ok.
authenticate_user(table, username, password, t) ==
    IF username \notin DOMAIN table THEN ReturnNone(table)
    ELSE IF table[username].password # hash_password(password)
    THEN ReturnNone(table)
    ELSE [ok |-> TRUE,
          token |-> create_access_token(table[username], t, JWT_TOKEN_EXPIRE_MINUTES),
          expires_in |-> JWT_TOKEN_EXPIRE_MINUTES * SecondsPerMinute,
          table |-> [table EXCEPT ![username].last_login = t]]

-----------------------------------------------------------------------------
(* AuthService.refresh_token: services/auth_service.py *)

\* payload.get("sub") of a token that carries no sub
NoSub == 0

\* jwt.decode(..., options={"verify_exp": False}): only the signature counts
JwtDecodesNoExp(token) == token.sig = "valid"

\* user_repo.get_by_id(int(user_id)): the usernames whose row has that id
ById(table, id) == {u \in DOMAIN table : table[u].id = id}

\* refresh_token with the expiry verified by jwt.decode
refresh_token_verifying_exp(table, token, t) ==
    IF ~JwtDecodes(token, t) THEN ReturnNone(table)
    ELSE IF token.sub = NoSub THEN ReturnNone(table)
    ELSE IF ById(table, token.sub) = {} THEN ReturnNone(table)
    ELSE LET u == CHOOSE u \in ById(table, token.sub) : TRUE IN
         [ok |-> TRUE,
          token |-> create_access_token(table[u], t, JWT_TOKEN_EXPIRE_MINUTES),
          expires_in |-> JWT_TOKEN_EXPIRE_MINUTES * SecondsPerMinute,
          table |-> table]

\* The value returned; nothing is written.
refresh_token(table, token, t) ==
    IF ~JwtDecodesNoExp(token) THEN ReturnNone(table)
    ELSE IF token.sub = NoSub THEN ReturnNone(table)
    ELSE IF ById(table, token.sub) = {} THEN ReturnNone(table)
    ELSE LET u == CHOOSE u \in ById(table, token.sub) : TRUE IN
         [ok |-> TRUE,
          token |-> create_access_token(table[u], t, JWT_TOKEN_EXPIRE_MINUTES),
          expires_in |-> JWT_TOKEN_EXPIRE_MINUTES * SecondsPerMinute,
          table |-> table]

-----------------------------------------------------------------------------
(* Actions of the authentication subsystem *)

NoRefresh ==
    [n |-> 0, presented |-> NoToken, time |-> 0, ok |-> FALSE,
     token |-> NoToken, expires_in |-> 0, before |-> UsersTable,
     issuedBefore |-> {}]

NoLogin ==
    [n |-> 0, username |-> "", password |-> "", time |-> 0, ok |-> FALSE,
     token |-> NoToken, expires_in |-> 0, before |-> UsersTable,
     issuedBefore |-> {}]

NoAuthRequest ==
    [n |-> 0, req |-> Request("", <<>>, NoHeader, "absent", NoToken),
     time |-> 0, status |-> 0, handled |-> FALSE]

\* time zones of the server: UTC, and one hour east and west of it
TzOffsets == {0 - 3600, 0, 3600}

AuthInit ==
    /\ tz \in TzOffsets
    /\ users = UsersTable
    /\ issued = {}
    /\ loginLast = NoLogin
    /\ authLast = NoAuthRequest
    /\ refreshLast = NoRefresh

AuthIdle ==
    /\ tz = 0
    /\ users = UsersTable
    /\ issued = {}
    /\ loginLast = NoLogin
    /\ authLast = NoAuthRequest
    /\ refreshLast = NoRefresh

\* the clock advances; the steps reach both sides of a token's exp
AuthTickSteps == {1, JWT_TOKEN_EXPIRE_MINUTES * SecondsPerMinute - 1}

AuthTick ==
    /\ ticks < MaxTicks
    /\ \E d \in AuthTickSteps : now' = now + d
    /\ ticks' = ticks + 1
    /\ loginLast' = NoLogin
    /\ authLast' = NoAuthRequest
    /\ refreshLast' = NoRefresh
    /\ UNCHANGED <<tz, users, issued, rateVars, apptVars, syncVars, sessVars, custVars, extVars>>

\* POST /api/auth/login
Login ==
    /\ Cardinality(issued) < MaxIssued
    /\ \E u \in LoginNames, p \in Passwords :
        LET r == authenticate_user(users, u, p, now) IN
        /\ users' = r.table
        /\ issued' = IF r.ok THEN issued \cup {r.token} ELSE issued
        /\ loginLast' = [n |-> 1, username |-> u, password |-> p,
                         time |-> now, ok |-> r.ok, token |-> r.token,
                         expires_in |-> r.expires_in, before |-> users,
                         issuedBefore |-> issued]
    /\ authLast' = NoAuthRequest
    /\ refreshLast' = NoRefresh
    /\ UNCHANGED <<now, ticks, tz, rateVars, apptVars, syncVars, sessVars, custVars, extVars>>

\* tokens a client can present: the issued ones, one with a forged
\* signature, and one signed with the secret but without exp
PresentableTokens ==
    issued
    \cup {Token("forged", UsersTable["admin"], TRUE, now + 1)}
    \cup {Token("valid", UsersTable["operator"], FALSE, 0)}

AuthRequests ==
    {Request(m, p, k, "bearer", tk) :
        m \in {"GET", "OPTIONS"}, p \in RequestPaths, k \in ApiKeys,
        tk \in PresentableTokens}
    \cup
    {Request(m, p, k, s, NoToken) :
        m \in {"GET", "OPTIONS"}, p \in RequestPaths, k \in ApiKeys,
        s \in {"absent", "basic"}}

\* a request arrives at AuthMiddleware
AuthRequest ==
    /\ \E r \in AuthRequests :
        LET out == AuthMiddleware_dispatch(r, now) IN
        authLast' = [n |-> 1, req |-> r, time |-> now,
                     status |-> out.status, handled |-> out.handled]
    /\ loginLast' = NoLogin
    /\ refreshLast' = NoRefresh
    /\ UNCHANGED <<now, ticks, tz, users, issued, rateVars, apptVars, syncVars, sessVars, custVars, extVars>>

AuthNext == AuthTick \/ Login \/ AuthRequest

authFrame == UNCHANGED <<now, ticks, tz, rateVars, apptVars, syncVars, sessVars, custVars, extVars>>

\* tokens a client can send to /api/auth/refresh: the issued ones, one
\* with a forged signature, and one signed with the secret but without sub
RefreshableTokens ==
    issued
    \cup {Token("forged", UsersTable["operator"], TRUE, now + 1)}
    \cup {[Token("valid", UsersTable["operator"], TRUE, now + 1)
             EXCEPT !.sub = NoSub]}

\* POST /api/auth/refresh
Refresh ==
    /\ Cardinality(issued) < MaxIssued
    /\ \E tk \in RefreshableTokens :
        LET r == refresh_token(users, tk, now) IN
        /\ users' = r.table
        /\ issued' = IF r.ok THEN issued \cup {r.token} ELSE issued
        /\ refreshLast' = [n |-> 1, presented |-> tk, time |-> now,
                           ok |-> r.ok, token |-> r.token,
                           expires_in |-> r.expires_in, before |-> users,
                           issuedBefore |-> issued]
    /\ loginLast' = NoLogin
    /\ authLast' = NoAuthRequest
    /\ authFrame

\* the users row is deleted in the database
RemoveUser ==
    /\ \E u \in DOMAIN users :
        users' = [v \in (DOMAIN users) \ {u} |-> users[v]]
    /\ loginLast' = NoLogin
    /\ authLast' = NoAuthRequest
    /\ refreshLast' = NoRefresh
    /\ UNCHANGED issued
    /\ authFrame

Roles == {"user", "admin"}

\* the role column of a users row is changed in the database
ChangeRole ==
    /\ \E u \in DOMAIN users, r \in Roles :
        /\ users[u].role # r
        /\ users' = [users EXCEPT ![u].role = r]
    /\ loginLast' = NoLogin
    /\ authLast' = NoAuthRequest
    /\ refreshLast' = NoRefresh
    /\ UNCHANGED issued
    /\ authFrame

RefreshNext == AuthTick \/ Login \/ Refresh \/ RemoveUser \/ ChangeRole

-----------------------------------------------------------------------------
(* RateLimitMiddleware: middleware/rate_limit.py *)

NoClient == "<no client>"
Clients == {"10.0.0.1", NoClient}

\* request.client.host if request.client else "unknown"
ClientIp(client) == IF client = NoClient THEN "unknown" ELSE client

IPs == {ClientIp(c) : c \in Clients}

Younger(t, x) == t - x < WindowSeconds

\* PruneOld with the window halved
PruneOldHalfWindow(ts, t) == SelectSeq(ts, LAMBDA x : 2 * (t - x) < WindowSeconds)

\* [t for t in self.request_counts[client_ip] if current_time - t < 60]
PruneOld(ts, t) == SelectSeq(ts, LAMBDA x : Younger(t, x))

\* what dispatch returns: the awaited call_next(request), or the
\* HTTPException object it builds (returned, not raised)
RateCallNext == [kind |-> "response", status |-> 200, handled |-> TRUE]
ReturnedHTTPException(code) ==
    [kind |-> "exception object", status |-> code, handled |-> FALSE]

\* dispatch recording the refused requests too
dispatch_recording_refused(counts, ip, path, t) ==
    IF path = PathHealth THEN [counts |-> counts, ret |-> RateCallNext]
    ELSE LET pruned == PruneOld(counts[ip], t) IN
         [counts |-> [counts EXCEPT ![ip] = Append(pruned, t)],
          ret |-> IF Len(pruned) >= limit_per_minute
                  THEN ReturnedHTTPException(429) ELSE RateCallNext]

\* dispatch: the new request_counts and the returned value
RateLimitMiddleware_dispatch(counts, ip, path, t) ==
    IF path = PathHealth THEN [counts |-> counts, ret |-> RateCallNext]
    ELSE LET pruned == PruneOld(counts[ip], t) IN
         IF Len(pruned) >= limit_per_minute
         THEN [counts |-> [counts EXCEPT ![ip] = pruned],
               ret |-> ReturnedHTTPException(429)]
         ELSE [counts |-> [counts EXCEPT ![ip] = Append(pruned, t)],
               ret |-> RateCallNext]

\* What the client receives for the value a middleware's dispatch returned.
\* BaseHTTPMiddleware awaits the returned value as an ASGI response; an
\* object that is no response raises TypeError there, which main.py's
\* global_exception_handler answers with JSONResponse(status_code=500).
ClientStatus(ret) == IF ret.kind = "response" THEN ret.status ELSE 500

-----------------------------------------------------------------------------
(* Actions of the rate limiter *)

NoRateRequest ==
    [n |-> 0, ip |-> "", path |-> <<>>, time |-> 0, youngBefore |-> 0,
     handled |-> FALSE, status |-> 0]

RateInit ==
    /\ request_counts = [ip \in IPs |-> <<>>]
    /\ forwarded = [ip \in IPs |-> <<>>]
    /\ rateLast = NoRateRequest
    /\ nreq = 0
    /\ refusals = [ip \in IPs |-> 0]

\* clock steps that reach both sides of the 60 second window
RateTickSteps == {1, WindowSeconds - 1}

RateTick ==
    /\ ticks < MaxTicks
    /\ \E d \in RateTickSteps : now' = now + d
    /\ ticks' = ticks + 1
    /\ UNCHANGED <<authVars, rateVars, apptVars, syncVars, sessVars, custVars, extVars>>

\* number of forwarded requests of ip younger than the window at time t
YoungForwarded(ip, t) ==
    Cardinality({i \in 1..Len(forwarded[ip]) : Younger(t, forwarded[ip][i])})

\* a request arrives at RateLimitMiddleware
RateRequest ==
    /\ nreq < MaxRequests
    /\ \E c \in Clients, path \in {PathHealth, PathCustomers} :
        LET ip == ClientIp(c)
            out == RateLimitMiddleware_dispatch(request_counts, ip, path, now)
        IN
        /\ request_counts' = out.counts
        /\ forwarded' =
              IF out.ret.handled /\ path # PathHealth
              THEN [forwarded EXCEPT ![ip] = Append(@, now)]
              ELSE forwarded
        /\ rateLast' = [n |-> nreq + 1, ip |-> ip, path |-> path, time |-> now,
                        youngBefore |-> YoungForwarded(ip, now),
                        handled |-> out.ret.handled,
                        status |-> ClientStatus(out.ret)]
        /\ refusals' = IF out.ret.handled THEN refusals
                       ELSE [refusals EXCEPT ![ip] = @ + 1]
    /\ nreq' = nreq + 1
    /\ UNCHANGED <<now, ticks, authVars, apptVars, syncVars, sessVars, custVars, extVars>>

RateNext == RateTick \/ RateRequest

-----------------------------------------------------------------------------
(* Appointments: services/appointment_service.py *)

\* dates are day numbers; date.today() is Today
Yesterday == 0
Today == 1
Dates == {Yesterday, Today}
Times == {"09:00", "10:00"}
SlotKeys == Dates \X Times

Statuses == {"pending", "confirmed", "cancelled", "completed"}

\* Appointment.status.in_(['pending', 'confirmed'])
IsActive(a) == a.status \in {"pending", "confirmed"}

\* An available_slots row per (date, time) (unique_date_time): no row, or a
\* row with is_available True ("free") or False ("taken").
\* slot_repo.get_slot(date, time) reads it.
SlotTaken(sl, d, tm) == sl[<<d, tm>>] = "taken"
SlotExists(sl, d, tm) == sl[<<d, tm>>] # "absent"

\* an optional key of the request body: {} when unset, {v} when set
Unset == {}
Get(opt, default) == IF opt = {} THEN default ELSE CHOOSE v \in opt : TRUE

ApptResult(res, appts, sl, cust) ==
    [result |-> res, appointments |-> appts, slots |-> sl, customer |-> cust]

\* create_appointment: the result and the tables after the transaction
\* (an exception rolls the session back: the tables stay as they were)
create_appointment(appts, sl, cust, customer_found, d, tm) ==
    IF ~customer_found
    THEN ApptResult("ValueError: customer not found", appts, sl, cust)
    ELSE IF d < Today
    THEN ApptResult("ValueError: past date", appts, sl, cust)
    ELSE IF SlotExists(sl, d, tm) /\ SlotTaken(sl, d, tm)
    THEN ApptResult("ValueError: time taken", appts, sl, cust)
    ELSE ApptResult("created",
            Append(appts, [date |-> d, time |-> tm, status |-> "pending"]),
            [sl EXCEPT ![<<d, tm>>] = "taken"],
            [last_visit |-> <<d, tm>>, total_visits |-> cust.total_visits + 1])

\* the slot rows after update_appointment moved a booking: the old slot's
\* row, if there is one, becomes available, then the new one is taken
MoveSlot(sl, old, new) ==
    LET freed == IF sl[old] # "absent" THEN [sl EXCEPT ![old] = "free"] ELSE sl
    IN [freed EXCEPT ![new] = "taken"]

\* update_appointment(appointment_id, appointment_data); data has the
\* optional keys date, time, status
update_appointment(appts, sl, cust, id, data) ==
    IF id \notin 1..Len(appts) THEN ApptResult("False", appts, sl, cust)
    ELSE
    LET a == appts[id]
        new_date == Get(data.date, a.date)
        new_time == Get(data.time, a.time)
        timed == data.date # Unset \/ data.time # Unset
        moved == timed /\ (new_date # a.date \/ new_time # a.time)
        updated == [date |-> Get(data.date, a.date),
                    time |-> Get(data.time, a.time),
                    status |-> Get(data.status, a.status)]
    IN
    IF timed /\ new_date < Today
    THEN ApptResult("ValueError: past date", appts, sl, cust)
    ELSE IF moved /\ SlotExists(sl, new_date, new_time)
              /\ SlotTaken(sl, new_date, new_time)
    THEN ApptResult("ValueError: time taken", appts, sl, cust)
    ELSE ApptResult("True",
            [appts EXCEPT ![id] = updated],
            IF moved
            THEN MoveSlot(sl, <<a.date, a.time>>, <<new_date, new_time>>)
            ELSE sl,
            cust)

\* cancel_appointment(appointment_id)
cancel_appointment(appts, sl, cust, id) ==
    IF id \notin 1..Len(appts) THEN ApptResult("False", appts, sl, cust)
    ELSE
    LET a == appts[id] IN
    ApptResult("True",
        [appts EXCEPT ![id].status = "cancelled"],
        IF sl[<<a.date, a.time>>] # "absent"
        THEN [sl EXCEPT ![<<a.date, a.time>>] = "free"]
        ELSE sl,
        cust)

-----------------------------------------------------------------------------
(* Actions of the appointment service *)

NoApptCall ==
    [op |-> "none", result |-> "", slot |-> <<Today, "09:00">>, busy |-> FALSE]

ApptInit ==
    /\ appointments = <<>>
    /\ slots = [k \in SlotKeys |-> "absent"]
    /\ customer = [last_visit |-> <<Yesterday, "09:00">>, total_visits |-> 0]
    /\ apptLast = NoApptCall
    /\ tasks = <<>>
    /\ log = <<>>
    /\ emitted = <<>>

\* an appointment other than `except` is pending or confirmed at (d, tm)
Booked(appts, d, tm, except) ==
    \E i \in 1..Len(appts) :
        i # except /\ IsActive(appts[i]) /\ appts[i].date = d /\ appts[i].time = tm

Apply(out) ==
    /\ appointments' = out.appointments
    /\ slots' = out.slots
    /\ customer' = out.customer

\* the payload handed to sio.emit; sendable: json.dumps accepts it
EmitTask(event, id, sendable) == [event |-> event, id |-> id, sendable |-> sendable]

Owed(task) == [event |-> task.event, id |-> task.id]

\* asyncio.create_task(websocket_service.emit_...(data)) when the call got
\* that far; otherwise nothing is scheduled
CreateTask(reached, task) ==
    /\ tasks' = IF reached THEN Append(tasks, task) ELSE tasks
    /\ log' = IF reached THEN Append(log, Owed(task)) ELSE log
    /\ UNCHANGED emitted

\* update_appointment's ws_data carries "changes": appointment_data, the
\* request body as parsed by pydantic: a date or time in it is a
\* datetime.date / datetime.time object, which json.dumps rejects
Sendable(data) == data.date = Unset /\ data.time = Unset

\* POST /api/appointments
CreateAppointment ==
    /\ Len(appointments) < MaxAppointments
    /\ Len(log) < MaxEvents
    /\ \E found \in BOOLEAN, d \in Dates, tm \in Times :
        LET out == create_appointment(appointments, slots, customer, found, d, tm)
        IN
        /\ Apply(out)
        /\ apptLast' = [op |-> "create", result |-> out.result, slot |-> <<d, tm>>,
                        busy |-> Booked(appointments, d, tm, 0)]
        /\ CreateTask(out.result = "created",
                EmitTask("appointment_created", Len(appointments) + 1, TRUE))
    /\ UNCHANGED <<now, ticks, authVars, rateVars, syncVars, sessVars, custVars, extVars>>

UpdateBodies ==
    [date : {Unset} \cup {{d} : d \in Dates},
     time : {Unset} \cup {{tm} : tm \in Times},
     status : {Unset, {"confirmed"}, {"cancelled"}}]

\* PUT /api/appointments/{appointment_id}
UpdateAppointment ==
    /\ Len(log) < MaxEvents
    /\ \E id \in 1..(Len(appointments) + 1), data \in UpdateBodies :
        LET out == update_appointment(appointments, slots, customer, id, data)
            d == IF id <= Len(appointments)
                 THEN Get(data.date, appointments[id].date) ELSE Today
            tm == IF id <= Len(appointments)
                  THEN Get(data.time, appointments[id].time) ELSE "09:00"
        IN
        /\ Apply(out)
        /\ apptLast' = [op |-> "update", result |-> out.result, slot |-> <<d, tm>>,
                        busy |-> /\ id <= Len(appointments)
                                 /\ <<d, tm>> # <<appointments[id].date,
                                                  appointments[id].time>>
                                 /\ Booked(appointments, d, tm, id)]
        /\ CreateTask(out.result = "True",
                EmitTask("appointment_updated", id, Sendable(data)))
    /\ UNCHANGED <<now, ticks, authVars, rateVars, syncVars, sessVars, custVars, extVars>>

\* DELETE /api/appointments/{appointment_id}
CancelAppointment ==
    /\ \E id \in 1..(Len(appointments) + 1) :
        LET out == cancel_appointment(appointments, slots, customer, id) IN
        /\ Apply(out)
        /\ apptLast' = [op |-> "cancel", result |-> out.result,
                        slot |-> <<Today, "09:00">>, busy |-> FALSE]
    /\ UNCHANGED <<tasks, log, emitted>>
    /\ UNCHANGED <<now, ticks, authVars, rateVars, syncVars, sessVars, custVars, extVars>>

\* The event loop runs the oldest scheduled coroutine: sio.emit encodes the
\* packet with json.dumps and sends it to the connected clients (at least
\* one is connected); when the encoding raises, the task ends with the
\* exception and nothing is sent.
RunEmitTask ==
    /\ tasks # <<>>
    /\ emitted' = IF Head(tasks).sendable
                  THEN Append(emitted, Owed(Head(tasks))) ELSE emitted
    /\ tasks' = Tail(tasks)
    /\ UNCHANGED <<appointments, slots, customer, apptLast, log>>
    /\ UNCHANGED <<now, ticks, authVars, rateVars, syncVars, sessVars, custVars, extVars>>

ApptNext ==
    CreateAppointment \/ UpdateAppointment \/ CancelAppointment \/ RunEmitTask

-----------------------------------------------------------------------------
(* S3SyncService: services/s3_sync_service.py *)

Categories == {"files", "docs"}
Filenames == {"a.pdf", "b.pdf"}
S3Keys == {"k1", "k2"}
FileKeys == Categories \X Filenames

\* s3_file_links is a JSON object category -> list of entries; NULL and {}
\* are the function with the empty domain
EmptyLinks == [c \in {} |-> <<>>]

NoSize == -1

\* 'version': the one passed in, or f"v{int(datetime.utcnow().timestamp())}"
GivenVersion(tag) == [generated |-> FALSE, tag |-> tag, at |-> 0]
GeneratedVersion(t) == [generated |-> TRUE, tag |-> "v", at |-> UtcnowTimestamp(t)]

\* file_data.get('versions', []); [] too where the key was just created
VersionsOf(e) == IF "versions" \in DOMAIN e THEN e.versions ELSE <<>>

\* an entry without its 'versions' key
Snapshot(e) == [k \in (DOMAIN e) \ {"versions"} |-> e[k]]

\* updated_file_info, as built from file_info at time t
UpdatedFileInfo(info, t) ==
    [original_name |-> Get(info.filename, ""),
     s3_key |-> Get(info.s3_key, ""),
     updated_at |-> t,
     size |-> Get(info.size, NoSize),
     version |-> IF info.version = Unset THEN GeneratedVersion(t)
                 ELSE GivenVersion(Get(info.version, ""))]

\* existing_file.update(updated_file_info): the keys of the update
\* overwrite, the others ('size' when not passed, 'created_at') stay
DictUpdate(e, upd) ==
    LET keys == {"original_name", "s3_key", "updated_at", "version"}
                \cup (IF upd.size = NoSize THEN {} ELSE {"size"})
    IN [k \in (DOMAIN e) \cup keys |-> IF k \in keys THEN upd[k] ELSE e[k]]

\* the branch for a name already in the list: history first, then update
UpdateExisting(e, upd) ==
    DictUpdate([k \in (DOMAIN e) \cup {"versions"} |->
                   IF k = "versions" THEN Append(VersionsOf(e), Snapshot(e))
                   ELSE e[k]],
               upd)

\* the branch for a new name
NewEntry(upd, t) ==
    [original_name |-> upd.original_name, s3_key |-> upd.s3_key,
     updated_at |-> upd.updated_at, size |-> upd.size, version |-> upd.version,
     versions |-> <<>>, created_at |-> t]

\* index of the first entry named filename, 0 if none
IndexOf(files, filename) ==
    LET hits == {i \in 1..Len(files) : files[i].original_name = filename}
    IN IF hits = {} THEN 0 ELSE CHOOSE i \in hits : \A k \in hits : i <= k

\* s3_file_links[category], with the category created when missing
WithCategory(links, category) ==
    IF category \in DOMAIN links THEN links
    ELSE [c \in (DOMAIN links) \cup {category} |->
            IF c = category THEN <<>> ELSE links[c]]

\* BaseRepository.update on a plain JSONB / ARRAY column: setattr and
\* flush.  The unit of work writes a column only when the assigned value
\* differs from the loaded one; a loaded object changed in place and
\* assigned back is the same object, so nothing is written.
ColumnAfterUpdate(stored, assigned, same_object) ==
    IF same_object THEN stored ELSE assigned

SyncResult(status, links, names, entry) ==
    [status |-> status, links |-> links, names |-> names, entry |-> entry]

NoEntry == NewEntry(UpdatedFileInfo(
                [filename |-> Unset, s3_key |-> Unset, size |-> Unset,
                 version |-> {""}], 0), 0)

\* sync_file_changes(submission_id, file_info) at time t: the status
\* returned, the two columns after the transaction, and the entry built
sync_file_changes(links, names, found, info, t) ==
    IF ~found THEN SyncResult("error", links, names, NoEntry)
    ELSE IF Get(info.filename, "") = "" \/ Get(info.s3_key, "") = ""
    THEN SyncResult("error", links, names, NoEntry)
    ELSE
    LET \* "submission.s3_file_links or {}": the loaded object when truthy
        links_loaded == DOMAIN links # {}
        names_loaded == names # <<>>
        category == Get(info.category, "files")
        filename == Get(info.filename, "")
        mem == WithCategory(links, category)
        files == mem[category]
        idx == IndexOf(files, filename)
        upd == UpdatedFileInfo(info, t)
        entry == IF idx # 0 THEN UpdateExisting(files[idx], upd)
                 ELSE NewEntry(upd, t)
        new_files == IF idx # 0 THEN [files EXCEPT ![idx] = entry]
                     ELSE Append(files, entry)
        new_names == IF idx = 0 /\ filename \notin Range(names)
                     THEN Append(names, filename) ELSE names
    IN SyncResult("success",
            ColumnAfterUpdate(links, [mem EXCEPT ![category] = new_files],
                              links_loaded),
            IF new_names # names
            THEN ColumnAfterUpdate(names, new_names, names_loaded)
            ELSE names,
            entry)

VersionsResult(status, current, versions) ==
    [status |-> status, current_version |-> current, versions |-> versions,
     version_count |-> Len(versions)]

\* get_file_versions(submission_id, filename, category)
get_file_versions(links, found, filename, category) ==
    IF ~found \/ category \notin DOMAIN links
    THEN VersionsResult("error", Snapshot(NoEntry), <<>>)
    ELSE LET idx == IndexOf(links[category], filename) IN
         IF idx = 0 THEN VersionsResult("error", Snapshot(NoEntry), <<>>)
         ELSE VersionsResult("success", Snapshot(links[category][idx]),
                             VersionsOf(links[category][idx]))

\* delete_file_from_db(submission_id, filename, category)
delete_file_from_db(links, names, found, filename, category) ==
    IF ~found \/ category \notin DOMAIN links
    THEN SyncResult("error", links, names, NoEntry)
    ELSE IF IndexOf(links[category], filename) = 0
    THEN SyncResult("error", links, names, NoEntry)
    ELSE
    LET updated_files ==
            SelectSeq(links[category], LAMBDA e : e.original_name # filename)
        new_names == SelectSeq(names, LAMBDA n : n # filename)
    IN SyncResult("success",
            \* the loaded dict has the category, so it is the loaded object
            ColumnAfterUpdate(links, [links EXCEPT ![category] = updated_files],
                              TRUE),
            IF filename \in Range(names)
            THEN ColumnAfterUpdate(names, new_names, TRUE)
            ELSE names,
            NoEntry)

-----------------------------------------------------------------------------
(* S3SyncService.scan_and_sync_submission *)

\* the objects under the submission's prefix, as s3_key.replace(prefix,
\* '').split('/'), in the order list_objects_v2 returns them (by key)
ObjectOrder == << <<"a.pdf">>, <<"docs", "a.pdf">>, <<"docs", "b.pdf">> >>

ObjectPaths == Range(ObjectOrder)

\* what list_objects_v2 answers: the files, and whether the prefix itself
\* is listed as an object whose key ends with '/'
Listings == [marker : BOOLEAN, files : SUBSET ObjectPaths]

CategoryOf(parts) == IF Len(parts) > 1 THEN parts[1] ELSE "files"

FilenameOf(parts) == IF Len(parts) > 1 THEN parts[2] ELSE parts[1]

KeyOf(parts) == IF Len(parts) > 1 THEN parts[1] \o "/" \o parts[2] ELSE parts[1]

\* obj['LastModified'] of the listed objects
ObjectLastModified == 0

\* file_info of one listed object
ScanEntry(parts) ==
    [original_name |-> FilenameOf(parts), s3_key |-> KeyOf(parts),
     last_modified |-> ObjectLastModified]

RECURSIVE ScanEntries(_)
ScanEntries(objs) ==
    IF objs = <<>> THEN <<>>
    ELSE <<ScanEntry(Head(objs))>> \o ScanEntries(Tail(objs))

\* updated_s3_file_links: built from the listing alone
ScannedLinks(files) ==
    LET objs == SelectSeq(ObjectOrder, LAMBDA p : p \in files) IN
    [c \in {CategoryOf(p) : p \in files} |->
        ScanEntries(SelectSeq(objs, LAMBDA p : CategoryOf(p) = c))]

\* list(updated_document_names): the names in the order the set yields
\* them, which the language leaves open
ListsOf(S) == {q \in [1..Cardinality(S) -> S] : Range(q) = S}

ScanResult(status, links, names) ==
    [status |-> status, links |-> links, names |-> names]

\* scan_and_sync_submission(submission_id): the status returned and the
\* two columns after the transaction
scan_and_sync_submission(links, names, found, listing, as_list) ==
    IF ~listing.marker /\ listing.files = {}
    THEN ScanResult("warning", links, names)
    ELSE IF ~found THEN ScanResult("error", links, names)
    ELSE ScanResult("success",
            ColumnAfterUpdate(links, ScannedLinks(listing.files), FALSE),
            ColumnAfterUpdate(names, as_list, FALSE))

-----------------------------------------------------------------------------
(* Actions of the sync service *)

NoSyncCall ==
    [op |-> "none", found |-> FALSE, status |-> "", category |-> "files",
     filename |-> "",
     s3_key |-> "", time |-> 0, before |-> EmptyLinks,
     result |-> VersionsResult("", Snapshot(NoEntry), <<>>)]

SyncInit ==
    /\ s3_file_links = EmptyLinks
    /\ document_names = <<>>
    /\ synced = [k \in FileKeys |-> <<>>]
    /\ syncLast = NoSyncCall
    /\ nsync = 0

SyncTick ==
    /\ ticks < MaxTicks
    /\ now' = now + 1
    /\ ticks' = ticks + 1
    /\ syncLast' = NoSyncCall
    /\ UNCHANGED <<authVars, rateVars, apptVars, sessVars, custVars, extVars>>
    /\ UNCHANGED <<s3_file_links, document_names, synced, nsync>>

\* file_info as the callers build it: with size and version, or with neither
FileInfos ==
    [category : {Unset, {"docs"}},
     filename : {Unset} \cup {{f} : f \in Filenames},
     s3_key : {Unset} \cup {{k} : k \in S3Keys},
     size : {{10}},
     version : {{"v2"}}]
    \cup
    [category : {Unset, {"docs"}},
     filename : {Unset} \cup {{f} : f \in Filenames},
     s3_key : {Unset} \cup {{k} : k \in S3Keys},
     size : {Unset},
     version : {Unset}]

\* a file change is reported for the submission
SyncFileChanges ==
    /\ nsync < MaxSyncs
    /\ \E found \in BOOLEAN, info \in FileInfos :
        LET out == sync_file_changes(s3_file_links, document_names, found, info, now)
            key == <<Get(info.category, "files"), Get(info.filename, "")>>
        IN
        /\ s3_file_links' = out.links
        /\ document_names' = out.names
        /\ synced' = IF out.status = "success"
                     THEN [synced EXCEPT ![key] = Append(@, Snapshot(out.entry))]
                     ELSE synced
        /\ syncLast' = [op |-> "sync", found |-> found, status |-> out.status,
                        category |-> key[1], filename |-> key[2], s3_key |-> Get(info.s3_key, ""),
                        time |-> now, before |-> s3_file_links,
                        result |-> VersionsResult("", Snapshot(NoEntry), <<>>)]
    /\ nsync' = nsync + 1
    /\ UNCHANGED <<now, ticks, authVars, rateVars, apptVars, sessVars, custVars, extVars>>

GetFileVersions ==
    /\ \E found \in BOOLEAN, f \in Filenames, c \in Categories :
        syncLast' = [op |-> "get", found |-> found, status |-> "",
                     category |-> c, filename |-> f,
                     s3_key |-> "", time |-> now, before |-> s3_file_links,
                     result |-> get_file_versions(s3_file_links, found, f, c)]
    /\ UNCHANGED <<now, ticks, authVars, rateVars, apptVars, sessVars, custVars, extVars>>
    /\ UNCHANGED <<s3_file_links, document_names, synced, nsync>>

DeleteFileFromDb ==
    /\ \E found \in BOOLEAN, f \in Filenames, c \in Categories :
        LET out == delete_file_from_db(s3_file_links, document_names, found, f, c)
        IN
        /\ s3_file_links' = out.links
        /\ document_names' = out.names
        /\ synced' = IF out.status = "success"
                     THEN [synced EXCEPT ![<<c, f>>] = <<>>] ELSE synced
        /\ syncLast' = [op |-> "delete", found |-> found, status |-> out.status,
                        category |-> c, filename |-> f, s3_key |-> "", time |-> now,
                        before |-> s3_file_links,
                        result |-> VersionsResult("", Snapshot(NoEntry), <<>>)]
    /\ UNCHANGED <<now, ticks, authVars, rateVars, apptVars, sessVars, custVars, extVars, nsync>>

SyncNext == SyncTick \/ SyncFileChanges \/ GetFileVersions \/ DeleteFileFromDb

NoScan ==
    [n |-> 0, found |-> FALSE, status |-> "", listed |-> {},
     before |-> EmptyLinks, after |-> EmptyLinks]

ScanInit == scanLast = NoScan

\* POST /api/documents/sync/{submission_id}
ScanAndSyncSubmission ==
    /\ nsync < MaxSyncs
    /\ \E found \in BOOLEAN, listing \in Listings :
        \E as_list \in ListsOf(Range(document_names)
                                \cup {FilenameOf(p) : p \in listing.files}) :
        LET out == scan_and_sync_submission(s3_file_links, document_names,
                                            found, listing, as_list)
        IN
        /\ s3_file_links' = out.links
        /\ document_names' = out.names
        /\ scanLast' = [n |-> nsync + 1, found |-> found, status |-> out.status,
                        listed |-> listing.files, before |-> s3_file_links,
                        after |-> out.links]
    /\ syncLast' = NoSyncCall
    /\ nsync' = nsync + 1
    /\ UNCHANGED synced
    /\ UNCHANGED <<now, ticks, authVars, rateVars, apptVars, sessVars, custVars,
                   initVars, setVars, gwVars>>

ScanNext == SyncTick \/ SyncFileChanges \/ ScanAndSyncSubmission

-----------------------------------------------------------------------------
(* DatabaseService.session_scope: database/postgresql.py *)

\* what the body of a with-block writes through the session
Rows == {"r1", "r2"}

NoException == "none"

NewSession == [pending |-> <<>>, calls |-> <<>>]

NewScope(db) ==
    [wrote |-> <<>>, body |-> "running", raised |-> NoException,
     caller |-> NoException, durableBefore |-> db]

SessInit ==
    /\ pc = "idle"
    /\ session = NewSession
    /\ durable = <<>>
    /\ scope = NewScope(<<>>)
    /\ nscopes = 0

\* session.commit(): the pending work becomes durable
SessionCommit(sess, db) ==
    [session |-> [pending |-> <<>>, calls |-> Append(sess.calls, "commit")],
     durable |-> db \o sess.pending]

\* session.rollback(): the pending work is discarded
SessionRollback(sess) ==
    [pending |-> <<>>, calls |-> Append(sess.calls, "rollback")]

\* session.close()
SessionClose(sess) ==
    [pending |-> <<>>, calls |-> Append(sess.calls, "close")]

sessFrame == UNCHANGED <<now, ticks, authVars, rateVars, apptVars, syncVars, custVars, extVars>>

\* session = self.Session(); try: yield session
EnterScope ==
    /\ pc \in {"idle", "done"}
    /\ nscopes < MaxScopes
    /\ pc' = "body"
    /\ session' = NewSession
    /\ scope' = NewScope(durable)
    /\ nscopes' = nscopes + 1
    /\ UNCHANGED durable
    /\ sessFrame

\* the body adds a row and flushes (BaseRepository.create)
BodyWrites ==
    /\ pc = "body"
    /\ Len(session.pending) < MaxWrites
    /\ \E r \in Rows :
        /\ session' = [session EXCEPT !.pending = Append(@, r)]
        /\ scope' = [scope EXCEPT !.wrote = Append(@, r)]
    /\ UNCHANGED <<pc, durable, nscopes>>
    /\ sessFrame

\* the body ends (falls off its end or returns): control resumes after yield
BodyReturns ==
    /\ pc = "body"
    /\ pc' = "commit"
    /\ scope' = [scope EXCEPT !.body = "returned"]
    /\ UNCHANGED <<session, durable, nscopes>>
    /\ sessFrame

\* the except branch without its rollback
BodyRaisesNoRollback ==
    /\ pc = "body"
    /\ pc' = "finally"
    /\ scope' = [scope EXCEPT !.body = "raised", !.raised = "BodyError",
                              !.caller = "BodyError"]
    /\ UNCHANGED <<session, durable, nscopes>>
    /\ sessFrame

\* the body raises: the exception is thrown into the generator at yield
\* and caught by "except Exception as e"
BodyRaises ==
    /\ pc = "body"
    /\ pc' = "except"
    /\ scope' = [scope EXCEPT !.body = "raised", !.raised = "BodyError"]
    /\ UNCHANGED <<session, durable, nscopes>>
    /\ sessFrame

\* session.commit() succeeds
CommitSucceeds ==
    /\ pc = "commit"
    /\ LET out == SessionCommit(session, durable) IN
        /\ session' = out.session
        /\ durable' = out.durable
    /\ pc' = "finally"
    /\ UNCHANGED <<scope, nscopes>>
    /\ sessFrame

\* session.commit() raises: nothing becomes durable, control goes to except
CommitRaises ==
    /\ pc = "commit"
    /\ session' = [session EXCEPT !.calls = Append(@, "commit raised")]
    /\ scope' = [scope EXCEPT !.raised = "CommitError"]
    /\ pc' = "except"
    /\ UNCHANGED <<durable, nscopes>>
    /\ sessFrame

\* except Exception as e: session.rollback(); raise e
ExceptRollback ==
    /\ pc = "except"
    /\ session' = SessionRollback(session)
    /\ scope' = [scope EXCEPT !.caller = scope.raised]
    /\ pc' = "finally"
    /\ UNCHANGED <<durable, nscopes>>
    /\ sessFrame

\* finally: session.close(); then the caller goes on, or sees the exception
FinallyClose ==
    /\ pc = "finally"
    /\ session' = SessionClose(session)
    /\ pc' = "done"
    /\ UNCHANGED <<durable, scope, nscopes>>
    /\ sessFrame

SessNext ==
    \/ EnterScope \/ BodyWrites \/ BodyReturns \/ BodyRaises
    \/ CommitSucceeds \/ CommitRaises \/ ExceptRollback \/ FinallyClose

-----------------------------------------------------------------------------
(* CustomerService.create_customer: services/customer_service.py *)

Phones == {"555-0100", "555-0101"}

\* server processes sharing the database
Workers == {"w1", "w2"}

\* CustomerRepository.get_by_phone that finds nothing
get_by_phone_nothing(rows, phone) == {}

\* CustomerRepository.get_by_phone: the rows with that phone (first() takes
\* the lowest)
get_by_phone(rows, phone) == {i \in 1..Len(rows) : rows[i].phone = phone}

\* customers.phone is unique=True: the database refuses a second row
PhoneTaken(rows, phone) == \E i \in 1..Len(rows) : rows[i].phone = phone

\* f"CUST-{uuid.uuid4().hex[:8].upper()}": an id no row has
NewCustomerId(rows) == Len(rows) + 1

First(hits) == CHOOSE i \in hits : \A k \in hits : i <= k

CustIdle == [pc |-> "idle", phone |-> "", existed |-> FALSE]

NoCustCall ==
    [n |-> 0, phone |-> "", status |-> "", id |-> 0, existed |-> FALSE,
     before |-> <<>>]

CustInit ==
    /\ customers = <<>>
    /\ cpc = [w \in Workers |-> CustIdle]
    /\ custIds = [p \in Phones |-> {}]
    /\ custLast = NoCustCall
    /\ ncust = 0

custFrame ==
    UNCHANGED <<now, ticks, authVars, rateVars, apptVars, syncVars, sessVars,
                extVars>>

\* POST /api/customers, up to the existence check: the call answers
\* 'exists', or goes on to create the row
CreateCustomerCheck ==
    /\ ncust < MaxCustomerCalls
    /\ \E w \in Workers, phone \in Phones :
        /\ cpc[w].pc = "idle"
        /\ LET existing == get_by_phone(customers, phone)
               was == PhoneTaken(customers, phone)
           IN
           IF existing # {}
           THEN LET id == customers[First(existing)].customer_id IN
                /\ custLast' = [n |-> 1, phone |-> phone, status |-> "exists",
                                id |-> id, existed |-> was, before |-> customers]
                /\ custIds' = [custIds EXCEPT ![phone] = @ \cup {id}]
                /\ UNCHANGED cpc
           ELSE /\ cpc' = [cpc EXCEPT ![w] =
                             [pc |-> "create", phone |-> phone, existed |-> was]]
                /\ custLast' = NoCustCall
                /\ UNCHANGED custIds
    /\ ncust' = ncust + 1
    /\ UNCHANGED customers
    /\ custFrame

\* customer_repo.create(...) and the commit of session_scope: the row is
\* stored, or the unique constraint on phone raises IntegrityError and
\* session_scope rolls back
CreateCustomerInsert ==
    /\ \E w \in Workers :
        /\ cpc[w].pc = "create"
        /\ LET phone == cpc[w].phone
               id == NewCustomerId(customers)
           IN
           IF PhoneTaken(customers, phone)
           THEN /\ custLast' = [n |-> 1, phone |-> phone,
                                status |-> "IntegrityError", id |-> 0,
                                existed |-> cpc[w].existed, before |-> customers]
                /\ UNCHANGED <<customers, custIds>>
           ELSE /\ customers' = Append(customers,
                                       [customer_id |-> id, phone |-> phone])
                /\ custLast' = [n |-> 1, phone |-> phone, status |-> "created",
                                id |-> id, existed |-> cpc[w].existed,
                                before |-> customers]
                /\ custIds' = [custIds EXCEPT ![phone] = @ \cup {id}]
        /\ cpc' = [cpc EXCEPT ![w] = CustIdle]
    /\ UNCHANGED ncust
    /\ custFrame

CustNext == CreateCustomerCheck \/ CreateCustomerInsert

-----------------------------------------------------------------------------
(* initialize_default_data: database/init_data.py *)

\* session.query(User).filter(User.role == "admin").count()
AdminCountZero(table) == 0

AdminCount(table) == Cardinality({u \in DOMAIN table : table[u].role = "admin"})

\* the id the database gives a new users row
NextUserId(table) ==
    LET ids == {table[u].id : u \in DOMAIN table} IN
    IF ids = {} THEN 1 ELSE (CHOOSE i \in ids : \A k \in ids : k <= i) + 1

\* User(username="admin", email="admin@example.com", password=..., role="admin")
DefaultAdmin(table) == UserRow(NextUserId(table), "admin", "admin", Sha1("admin123"))

\* users.username and users.email are unique=True
AdminRowRefused(table) ==
    \E u \in DOMAIN table :
        table[u].username = "admin" \/ table[u].email = <<"admin", "@example.com">>

Restrict(table, names) == [u \in names |-> table[u]]

\* the users table an instance can find at start: empty, without an admin,
\* as initialised, with another user as the only admin, and with the name
\* admin held by a user who is no admin
TablesAtStart ==
    { Restrict(UsersTable, {}),
      Restrict(UsersTable, {"operator"}),
      UsersTable,
      [Restrict(UsersTable, {"operator"}) EXCEPT !["operator"].role = "admin"],
      [Restrict(UsersTable, {"admin"}) EXCEPT !["admin"].role = "user"] }

NoInitRun == [n |-> 0, result |-> "", before |-> UsersTable]

InitDataInit ==
    /\ ipc = [w \in Workers |-> "idle"]
    /\ initLast = NoInitRun
    /\ ninit = 0

initFrame ==
    /\ loginLast' = NoLogin
    /\ authLast' = NoAuthRequest
    /\ refreshLast' = NoRefresh
    /\ UNCHANGED <<now, ticks, tz, issued, rateVars, apptVars, syncVars, sessVars,
                   custVars, setVars, gwVars, scanVars>>

\* an instance starts: lifespan calls initialize_default_data, which counts
\* the admins; with one or more it returns True, otherwise it goes on
InitDataCheck ==
    /\ ninit < MaxInitRuns
    /\ \E w \in Workers :
        /\ ipc[w] = "idle"
        /\ IF AdminCount(users) = 0
           THEN /\ ipc' = [ipc EXCEPT ![w] = "add"]
                /\ initLast' = NoInitRun
           ELSE /\ initLast' = [n |-> 1, result |-> "True", before |-> users]
                /\ UNCHANGED ipc
    /\ ninit' = ninit + 1
    /\ UNCHANGED users
    /\ initFrame

\* session.add(admin_user), flush, and the commit of session_scope; a
\* unique constraint raises IntegrityError: rolled back, False returned
InitDataAdd ==
    /\ \E w \in Workers :
        /\ ipc[w] = "add"
        /\ IF AdminRowRefused(users)
           THEN /\ initLast' = [n |-> 1, result |-> "False", before |-> users]
                /\ UNCHANGED users
           ELSE /\ users' = [u \in (DOMAIN users) \cup {"admin"} |->
                              IF u = "admin" THEN DefaultAdmin(users) ELSE users[u]]
                /\ initLast' = [n |-> 1, result |-> "True", before |-> users]
        /\ ipc' = [ipc EXCEPT ![w] = "idle"]
    /\ UNCHANGED ninit
    /\ initFrame

\* between two starts, while no instance is initialising, a users row is
\* deleted or its role is changed in the database
EditUsers ==
    /\ \A w \in Workers : ipc[w] = "idle"
    /\ \E u \in DOMAIN users :
        \/ users' = Restrict(users, (DOMAIN users) \ {u})
        \/ \E r \in Roles : users[u].role # r /\ users' = [users EXCEPT ![u].role = r]
    /\ initLast' = NoInitRun
    /\ UNCHANGED <<ipc, ninit>>
    /\ initFrame

InitDataNext == InitDataCheck \/ InitDataAdd \/ EditUsers

-----------------------------------------------------------------------------
(* SettingsService: services/settings_service.py *)

Prompts == {"prompt A", "prompt B"}

NoObject == "NoSuchKey"

NoPrompt == "none"

DefaultPrompt ==
    "You are a helpful assistant that provides information about automotive services."

\* get_system_settings()["system_prompt"]: the text file if it can be read,
\* else the JSON settings, else the built-in default
get_system_settings(txt, json) ==
    IF txt # NoObject THEN txt
    ELSE IF json # NoObject THEN json
    ELSE DefaultPrompt

\* update_system_prompt(content): the two uploads succeed or raise as S3
\* decides (txt_ok, json_ok); the objects afterwards and the value returned
update_system_prompt(txt, json, content, txt_ok, json_ok) ==
    [txt |-> IF txt_ok THEN content ELSE txt,
     json |-> IF json_ok THEN content ELSE json,
     result |-> txt_ok \/ json_ok]

NoSettingsCall == [op |-> "none", content |-> "", result |-> FALSE, prompt |-> ""]

SettingsInit ==
    /\ s3txt = NoObject
    /\ s3json = NoObject
    /\ lastTrue = NoPrompt
    /\ setLast = NoSettingsCall
    /\ nupd = 0

setFrame ==
    UNCHANGED <<now, ticks, authVars, rateVars, apptVars, syncVars, sessVars,
                custVars, initVars, gwVars, scanVars>>

\* PUT /api/system/prompt
UpdateSystemPrompt ==
    /\ nupd < MaxUpdates
    /\ \E c \in Prompts, txt_ok \in BOOLEAN, json_ok \in BOOLEAN :
        LET out == update_system_prompt(s3txt, s3json, c, txt_ok, json_ok) IN
        /\ s3txt' = out.txt
        /\ s3json' = out.json
        /\ lastTrue' = IF out.result THEN c ELSE lastTrue
        /\ setLast' = [op |-> "update", content |-> c, result |-> out.result,
                       prompt |-> ""]
    /\ nupd' = nupd + 1
    /\ setFrame

\* GET /api/settings/system
GetSystemSettings ==
    /\ setLast' = [op |-> "get", content |-> "", result |-> TRUE,
                   prompt |-> get_system_settings(s3txt, s3json)]
    /\ UNCHANGED <<s3txt, s3json, lastTrue, nupd>>
    /\ setFrame

\* update_working_hours(hours): reads the settings, sets the hours and
\* uploads the whole document, system_prompt included, as the JSON settings
UpdateWorkingHours ==
    /\ nupd < MaxUpdates
    /\ \E json_ok \in BOOLEAN :
        /\ s3json' = IF json_ok THEN get_system_settings(s3txt, s3json) ELSE s3json
        /\ setLast' = [op |-> "hours", content |-> "", result |-> json_ok,
                       prompt |-> ""]
    /\ nupd' = nupd + 1
    /\ UNCHANGED <<s3txt, lastTrue>>
    /\ setFrame

SettingsNext == UpdateSystemPrompt \/ UpdateWorkingHours \/ GetSystemSettings

-----------------------------------------------------------------------------
(* The middleware stack: main.py.  add_middleware puts each middleware
   outside those added before it, so a request meets RateLimitMiddleware
   (added second) and then AuthMiddleware (added first); each hands the
   request inwards only through call_next. *)

\* the stack with a rate limiter that calls call_next even when it refuses
StackAlwaysCallsNext(counts, ip, r, t) ==
    LET rate == RateLimitMiddleware_dispatch(counts, ip, r.path, t)
        auth == AuthMiddleware_dispatch(r, t)
    IN [counts |-> rate.counts,
        rate_forwarded |-> rate.ret.handled,
        reached_auth |-> TRUE,
        auth_status |-> auth.status,
        reached_handler |-> auth.handled,
        status |-> IF rate.ret.handled THEN auth.status
                   ELSE ClientStatus(rate.ret)]

\* one request through RateLimitMiddleware.dispatch and, when that calls
\* call_next, through AuthMiddleware.dispatch and, when that calls
\* call_next, to the handler
Stack(counts, ip, r, t) ==
    LET rate == RateLimitMiddleware_dispatch(counts, ip, r.path, t)
        auth == AuthMiddleware_dispatch(r, t)
    IN IF rate.ret.handled
       THEN [counts |-> rate.counts,
             rate_forwarded |-> TRUE,
             reached_auth |-> TRUE,
             auth_status |-> auth.status,
             reached_handler |-> auth.handled,
             status |-> auth.status]
       ELSE [counts |-> rate.counts,
             rate_forwarded |-> FALSE,
             reached_auth |-> FALSE,
             auth_status |-> 0,
             reached_handler |-> FALSE,
             status |-> ClientStatus(rate.ret)]

NoStackRequest ==
    [n |-> 0, ip |-> "", req |-> Request("", <<>>, NoHeader, "absent", NoToken),
     time |-> 0, before |-> <<>>, after |-> <<>>, rate_forwarded |-> FALSE,
     reached_auth |-> FALSE, auth_status |-> 0, reached_handler |-> FALSE,
     status |-> 0]

StackInit == gwLast = NoStackRequest

\* requests that carry no token: for /health, and for a counted path
\* without API key, with a wrong one, and as OPTIONS
StackRequests ==
    {Request("GET", PathHealth, NoHeader, "absent", NoToken),
     Request("GET", PathCustomers, NoHeader, "absent", NoToken),
     Request("GET", PathCustomers, "wrong-key", "absent", NoToken),
     Request("OPTIONS", PathCustomers, NoHeader, "absent", NoToken)}

\* a request arrives at the application
StackRequest ==
    /\ nreq < MaxRequests
    /\ \E c \in Clients, r \in StackRequests :
        LET ip == ClientIp(c)
            out == Stack(request_counts, ip, r, now)
        IN
        /\ request_counts' = out.counts
        /\ forwarded' =
              IF out.rate_forwarded /\ r.path # PathHealth
              THEN [forwarded EXCEPT ![ip] = Append(@, now)]
              ELSE forwarded
        /\ rateLast' = [n |-> nreq + 1, ip |-> ip, path |-> r.path, time |-> now,
                        youngBefore |-> YoungForwarded(ip, now),
                        handled |-> out.rate_forwarded,
                        status |-> out.status]
        /\ refusals' = IF out.rate_forwarded THEN refusals
                       ELSE [refusals EXCEPT ![ip] = @ + 1]
        /\ gwLast' = [n |-> nreq + 1, ip |-> ip, req |-> r, time |-> now,
                      before |-> request_counts[ip], after |-> out.counts[ip],
                      rate_forwarded |-> out.rate_forwarded,
                      reached_auth |-> out.reached_auth,
                      auth_status |-> out.auth_status,
                      reached_handler |-> out.reached_handler,
                      status |-> out.status]
    /\ nreq' = nreq + 1
    /\ UNCHANGED <<now, ticks, authVars, apptVars, syncVars, sessVars, custVars,
                   initVars, setVars, scanVars>>

StackNext == RateTick \/ StackRequest

-----------------------------------------------------------------------------
(* Specifications *)

ClockInit == now = 0 /\ ticks = 0

ExtInit == InitDataInit /\ SettingsInit /\ StackInit /\ ScanInit

Init == ClockInit /\ AuthInit /\ RateInit /\ ApptInit /\ SyncInit /\ SessInit /\ CustInit /\ ExtInit

Next == AuthNext \/ RefreshNext \/ RateNext \/ ApptNext \/ SyncNext \/ SessNext \/ CustNext
        \/ InitDataNext \/ SettingsNext \/ StackNext
        \/ ScanNext

Spec == Init /\ [][Next]_vars

Idle == ClockInit /\ AuthIdle /\ RateInit /\ ApptInit /\ SyncInit /\ SessInit /\ CustInit /\ ExtInit

\* the server runs in any of the time zones TzOffsets
AuthStart == ClockInit /\ AuthInit /\ RateInit /\ ApptInit /\ SyncInit /\ SessInit /\ CustInit /\ ExtInit

SpecAuth == AuthStart /\ [][AuthNext]_vars

SpecRefresh == Idle /\ [][RefreshNext]_vars

SpecRate == Idle /\ [][RateNext]_vars

SpecAppt == Idle /\ [][ApptNext]_vars

\* the event loop keeps running: a scheduled coroutine is eventually run
SpecApptLive == Idle /\ [][ApptNext]_vars /\ WF_vars(RunEmitTask)

SpecSync == Idle /\ [][SyncNext]_vars

SpecSession == Idle /\ [][SessNext]_vars

SpecCust == Idle /\ [][CustNext]_vars

\* the instances start on any of the tables TablesAtStart
InitDataStart ==
    /\ ClockInit /\ RateInit /\ ApptInit /\ SyncInit /\ SessInit /\ CustInit
    /\ ExtInit
    /\ tz = 0
    /\ users \in TablesAtStart
    /\ issued = {}
    /\ loginLast = NoLogin
    /\ authLast = NoAuthRequest
    /\ refreshLast = NoRefresh

SpecInitData == InitDataStart /\ [][InitDataNext]_vars

SpecSettings == Idle /\ [][SettingsNext]_vars

SpecStack == Idle /\ [][StackNext]_vars

SpecScan == Idle /\ [][ScanNext]_vars

-----------------------------------------------------------------------------
(* Claims about authentication *)

\* a path that is none of the listed public paths
IsProtectedPath(path) == path \notin Range(public_paths)

TokenVerifies(r, t) ==
    /\ r.scheme = "bearer"
    /\ r.token.sig = "valid"
    /\ r.token.has_exp
    /\ r.token.exp >= t

\* C1: a non-OPTIONS request to a protected path reaches the handler only
\* if its X-API-Key equals the configured key and its Bearer JWT verifies
\* and is not expired.
C1_ProtectedNeedsKeyAndJwt ==
    (/\ authLast.n = 1
     /\ authLast.req.method # "OPTIONS"
     /\ IsProtectedPath(authLast.req.path)
     /\ authLast.handled)
    => (/\ authLast.req.api_key = API_KEY
        /\ TokenVerifies(authLast.req, authLast.time))

\* C6: a non-OPTIONS request to a public path is forwarded only if its
\* X-API-Key equals the configured key.
C6_PublicNeedsKey ==
    (/\ authLast.n = 1
     /\ authLast.req.method # "OPTIONS"
     /\ ~IsProtectedPath(authLast.req.path)
     /\ authLast.handled)
    => authLast.req.api_key = API_KEY

\* C9: a token returned by authenticate_user at time t has exp = t + 30
\* minutes and expires_in = 30 * 60; presented with the API key on a
\* protected path it is accepted before exp and answered 401 after exp.
C9_TokenLifetime ==
    /\ (loginLast.n = 1 /\ loginLast.ok) =>
          /\ loginLast.token.exp =
                loginLast.time + JWT_TOKEN_EXPIRE_MINUTES * SecondsPerMinute
          /\ loginLast.expires_in = JWT_TOKEN_EXPIRE_MINUTES * SecondsPerMinute
    /\ (/\ authLast.n = 1
        /\ authLast.req.method # "OPTIONS"
        /\ IsProtectedPath(authLast.req.path)
        /\ authLast.req.api_key = API_KEY
        /\ authLast.req.scheme = "bearer"
        /\ authLast.req.token \in issued) =>
          /\ authLast.time < authLast.req.token.exp => authLast.handled
          /\ authLast.time > authLast.req.token.exp => authLast.status = 401

\* the credentials are those of a stored user
CredentialsMatch(table, username, password) ==
    /\ username \in DOMAIN table
    /\ table[username].password = <<"sha256", password>>

-----------------------------------------------------------------------------
(* Claims about the rate limiter *)

\* forwarded requests of ip in the 60 seconds ending with its i-th one
InWindowEndingAt(ip, i) ==
    {j \in 1..Len(forwarded[ip]) :
        /\ forwarded[ip][j] <= forwarded[ip][i]
        /\ forwarded[ip][i] - forwarded[ip][j] < WindowSeconds}

IsSuffix(s, whole) ==
    /\ Len(s) <= Len(whole)
    /\ s = SubSeq(whole, Len(whole) - Len(s) + 1, Len(whole))

\* C2: per IP at most limit_per_minute non-/health requests are forwarded
\* within any 60 second window; a request is forwarded only when fewer
\* than limit_per_minute forwarded ones are younger than 60 seconds;
\* /health is always forwarded and never counted.
C2_RateLimit ==
    /\ \A ip \in IPs : \A i \in 1..Len(forwarded[ip]) :
          Cardinality(InWindowEndingAt(ip, i)) <= limit_per_minute
    /\ (rateLast.n > 0 /\ rateLast.path # PathHealth /\ rateLast.handled)
          => rateLast.youngBefore < limit_per_minute
    /\ (rateLast.n > 0 /\ rateLast.path = PathHealth) => rateLast.handled
    /\ \A ip \in IPs : IsSuffix(request_counts[ip], forwarded[ip])

\* an IP at its limit had a /health request forwarded, after its window
\* had slid far enough to forward more than limit_per_minute in all
C2_Witness ==
    /\ rateLast.n > 0
    /\ rateLast.path = PathHealth
    /\ rateLast.handled
    /\ rateLast.youngBefore = limit_per_minute
    /\ Len(forwarded[rateLast.ip]) > limit_per_minute

\* C7: with limit_per_minute forwarded requests younger than 60 seconds, a
\* further non-/health request is not forwarded and the client receives
\* HTTP 429.
C7_Refused429 ==
    (/\ rateLast.n > 0
     /\ rateLast.path # PathHealth
     /\ rateLast.youngBefore >= limit_per_minute)
    => (~rateLast.handled /\ rateLast.status = 429)

\* C17: refused requests are not recorded; a counted request of an IP is
\* forwarded exactly when fewer than limit_per_minute of that IP's
\* forwarded requests are younger than 60 seconds, however many were
\* refused before; a request of one IP leaves the record of every other
\* IP as it was.
C17_NeverLockedOut ==
    /\ [](\A ip \in IPs : IsSuffix(request_counts[ip], forwarded[ip]))
    /\ []((rateLast.n > 0 /\ rateLast.path # PathHealth)
            => (rateLast.handled <=> rateLast.youngBefore < limit_per_minute))
    /\ [][\A ip \in IPs :
            (rateLast'.n # rateLast.n /\ rateLast'.ip # ip)
            => /\ request_counts'[ip] = request_counts[ip]
               /\ forwarded'[ip] = forwarded[ip]
               /\ refusals'[ip] = refusals[ip]]_vars

\* C17: an IP that was refused has a request forwarded again once its
\* window has slid, more than limit_per_minute forwarded in all
C17_Witness ==
    /\ rateLast.n > 0
    /\ rateLast.path # PathHealth
    /\ rateLast.handled
    /\ refusals[rateLast.ip] > 0
    /\ Len(forwarded[rateLast.ip]) > limit_per_minute

-----------------------------------------------------------------------------
(* Claims about appointments *)

ActiveAt(k) ==
    {i \in 1..Len(appointments) :
        /\ IsActive(appointments[i])
        /\ <<appointments[i].date, appointments[i].time>> = k}

\* C3: for every (date, time) at most one appointment is pending or
\* confirmed, and create_appointment and update_appointment refuse a
\* (date, time) that is already taken with "Выбранное время уже занято".
C3_NoDoubleBooking ==
    /\ \A k \in SlotKeys : Cardinality(ActiveAt(k)) <= 1
    /\ (apptLast.op \in {"create", "update"} /\ apptLast.busy
        /\ apptLast.slot[1] >= Today)
          => apptLast.result \in {"ValueError: time taken",
                                  "ValueError: customer not found"}

\* C12: after every create_appointment that returns successfully exactly
\* one appointment_created event with the new id is eventually emitted to
\* the connected clients, and after every update_appointment that returns
\* True exactly one appointment_updated event: the n-th event owed is
\* eventually the n-th event sent, and never more are sent than owed.
C12_LiveUpdates ==
    /\ [](Len(emitted) <= Len(log))
    /\ \A n \in 1..MaxEvents :
          [](Len(log) >= n => <>(Len(emitted) >= n /\ emitted[n] = log[n]))

-----------------------------------------------------------------------------
(* Claims about the file sync *)

FilesOf(links, category) ==
    IF category \in DOMAIN links THEN links[category] ELSE <<>>

\* C4: for a filename already recorded in the category a successful
\* sync_file_changes appends the entry's previous state (without
\* 'versions') to the end of its versions, keeps the earlier history and
\* the other entries, and overwrites the current fields; for a new
\* filename it adds one entry with empty versions; it never adds a second
\* entry for a recorded name.
C4_SyncKeepsHistory ==
    (syncLast.op = "sync" /\ syncLast.status = "success") =>
        LET old == FilesOf(syncLast.before, syncLast.category)
            new == FilesOf(s3_file_links, syncLast.category)
            idx == IndexOf(old, syncLast.filename)
        IN
        IF idx # 0
        THEN /\ Len(new) = Len(old)
             /\ new[idx].versions = Append(old[idx].versions, Snapshot(old[idx]))
             /\ new[idx].original_name = syncLast.filename
             /\ new[idx].s3_key = syncLast.s3_key
             /\ new[idx].updated_at = syncLast.time
             /\ \A i \in 1..Len(old) : i # idx => new[i] = old[i]
        ELSE /\ Len(new) = Len(old) + 1
             /\ SubSeq(new, 1, Len(old)) = old
             /\ new[Len(new)].original_name = syncLast.filename
             /\ new[Len(new)].s3_key = syncLast.s3_key
             /\ new[Len(new)].versions = <<>>

\* C8: after n successful sync_file_changes calls for the same
\* (submission, category, filename) with no delete in between,
\* get_file_versions returns success, the last synced entry as
\* current_version, and the n - 1 earlier ones as versions, oldest first.
C8_VersionsAfterSyncs ==
    LET h == synced[<<syncLast.category, syncLast.filename>>] IN
    (syncLast.op = "get" /\ syncLast.found /\ Len(h) >= 1)
    => (/\ syncLast.result.status = "success"
        /\ syncLast.result.current_version = h[Len(h)]
        /\ syncLast.result.version_count = Len(h) - 1
        /\ syncLast.result.versions = SubSeq(h, 1, Len(h) - 1))

\* the entry named filename in category, as a set (empty when there is none)
EntryOf(links, category, filename) ==
    IF category \notin DOMAIN links THEN {}
    ELSE {links[category][i] : i \in {IndexOf(links[category], filename)} \ {0}}

\* C18: after a scan, every file that sync_file_changes had recorded
\* before it and that is still listed in S3 has the versions list and the
\* created_at it had before.
C18_ScanKeepsHistory ==
    (scanLast.n > 0 /\ scanLast.status = "success") =>
        \A p \in scanLast.listed :
            \A old \in EntryOf(scanLast.before, CategoryOf(p), FilenameOf(p)) :
                "created_at" \in DOMAIN old =>
                    \E new \in EntryOf(scanLast.after, CategoryOf(p), FilenameOf(p)) :
                        /\ VersionsOf(new) = VersionsOf(old)
                        /\ "created_at" \in DOMAIN new
                        /\ new.created_at = old.created_at

-----------------------------------------------------------------------------
(* Claims about session_scope *)

Count(calls, c) == Cardinality({i \in 1..Len(calls) : calls[i] = c})

\* C5: a body that ends without an exception is committed exactly once;
\* if the body or the commit raises, the session is rolled back, nothing
\* of the scope is committed and the exception reaches the caller; in
\* both cases the session is closed exactly once, after the commit or
\* rollback.
C5_SessionScope ==
    /\ Count(session.calls, "close") <= 1
    /\ Count(session.calls, "commit") + Count(session.calls, "commit raised") <= 1
    /\ Count(session.calls, "rollback") <= 1
    /\ pc = "done" =>
        /\ session.calls[Len(session.calls)] = "close"
        /\ Count(session.calls, "close") = 1
        /\ session.pending = <<>>
        /\ CASE scope.body = "returned" /\ scope.raised = NoException ->
                   /\ session.calls = <<"commit", "close">>
                   /\ scope.caller = NoException
                   /\ durable = scope.durableBefore \o scope.wrote
             [] scope.body = "returned" /\ scope.raised # NoException ->
                   /\ session.calls = <<"commit raised", "rollback", "close">>
                   /\ scope.caller = "CommitError"
                   /\ durable = scope.durableBefore
             [] scope.body = "raised" ->
                   /\ session.calls = <<"rollback", "close">>
                   /\ scope.caller = "BodyError"
                   /\ durable = scope.durableBefore
             [] OTHER -> FALSE

\* a second scope wrote a row and its commit raised, after a first scope
\* had committed
C5_Witness ==
    /\ pc = "done"
    /\ scope.caller = "CommitError"
    /\ scope.wrote # <<>>
    /\ durable # <<>>
    /\ durable = scope.durableBefore

-----------------------------------------------------------------------------
(* Claims about customers *)

-----------------------------------------------------------------------------
(* Claims about initialize_default_data *)

HasAdmin(table) == \E u \in DOMAIN table : table[u].role = "admin"

\* C14: initialize_default_data creates the default admin only when no
\* user with role admin exists; however often and in however many
\* instances it runs, at most one default admin exists, and once an admin
\* exists it adds and changes no user.
C14_DefaultAdminOnce ==
    /\ Cardinality({u \in DOMAIN users :
                      users[u].password = Sha1("admin123")}) <= 1
    /\ initLast.n = 1 =>
          /\ HasAdmin(initLast.before) => users = initLast.before
          /\ users # initLast.before =>
                /\ ~HasAdmin(initLast.before)
                /\ DOMAIN users = (DOMAIN initLast.before) \cup {"admin"}
                /\ "admin" \notin DOMAIN initLast.before
                /\ users["admin"].role = "admin"
                /\ \A u \in DOMAIN initLast.before : users[u] = initLast.before[u]

\* two instances both found no admin; the second one's insert was refused
C14_Witness ==
    /\ initLast.n = 1
    /\ initLast.result = "False"
    /\ HasAdmin(users)
    /\ \E u \in DOMAIN users : u # "admin"

-----------------------------------------------------------------------------
(* Claims about the settings *)

\* C15: after update_system_prompt(c) has returned True, the next
\* get_system_settings returns system_prompt = c.
C15_PromptReadBack ==
    (setLast.op = "get" /\ lastTrue # NoPrompt) => setLast.prompt = lastTrue

-----------------------------------------------------------------------------
(* Claims about the middleware stack *)

\* the request was recorded in request_counts of its IP
Counted(g) == Len(g.after) = Len(PruneOld(g.before, g.time)) + 1

\* C16: a request refused by the rate limiter reaches neither
\* authentication nor a handler; a request that reached authentication,
\* and so any request authentication answered 401 or 403, was counted
\* against its IP unless its path is /health.
C16_RateLimitBeforeAuth ==
    gwLast.n > 0 =>
        /\ ~gwLast.rate_forwarded =>
               (~gwLast.reached_auth /\ ~gwLast.reached_handler)
        /\ gwLast.reached_handler => gwLast.reached_auth
        /\ (gwLast.reached_auth /\ gwLast.req.path # PathHealth) => Counted(gwLast)
        /\ gwLast.auth_status \in {401, 403} => Counted(gwLast)

\* C16: a request without API key for /api/customers is refused by the
\* rate limiter after limit_per_minute counted requests reached
\* authentication
C16_Witness ==
    /\ gwLast.n > 0
    /\ ~gwLast.rate_forwarded
    /\ ~gwLast.reached_auth
    /\ gwLast.req.api_key = NoHeader
    /\ Len(gwLast.before) >= limit_per_minute

====
